---- MODULE Spec2Model ----
(***************************************************************************)
(* Model of src/storage/popup.js: the click handler of the popup, which    *)
(* reads the password, start and end fields, parses the two bounds with    *)
(* parseInt, scans the range comparing i.toString() with the password and  *)
(* writes a message and a colour into the result element.                  *)
(*                                                                         *)
(* Text is a sequence of one-character strings.  A Number is a record      *)
(* [nan, neg, mag]; mag is the magnitude as a little-endian sequence of    *)
(* decimal digits without high zeros (zero is <<>>), so that the values    *)
(* around 2^53 and 10^21, where the arithmetic of the language's Number    *)
(* type stops being exact, are represented at their real width.            *)
(***************************************************************************)
EXTENDS Integers, Sequences, FiniteSets

(***************************************************************************)
(* Bounds of the model.                                                    *)
(***************************************************************************)
\* Largest end - start of a non-empty range offered to the handler.
MaxRange == 32

\* Comparisons recorded per click; more than any scan that ends performs.
MaxTrace == MaxRange + 2

(***************************************************************************)
(* Natural numbers at full width: little-endian decimal digit sequences.   *)
(***************************************************************************)
Reverse(s) == [k \in 1..Len(s) |-> s[Len(s) + 1 - k]]

RECURSIVE MulAdd(_, _, _)
\* ds * k + c
MulAdd(ds, k, c) ==
  IF ds = <<>>
    THEN IF c = 0 THEN <<>> ELSE <<c % 10>> \o MulAdd(<<>>, k, c \div 10)
    ELSE LET v == Head(ds) * k + c
         IN  <<v % 10>> \o MulAdd(Tail(ds), k, v \div 10)

RECURSIVE StripHigh(_)
StripHigh(ds) ==
  IF ds # <<>> /\ ds[Len(ds)] = 0 THEN StripHigh(SubSeq(ds, 1, Len(ds) - 1))
                                  ELSE ds

MagSucc(ds) == MulAdd(ds, 1, 1)

RECURSIVE MagPredRaw(_)
MagPredRaw(ds) ==
  IF Head(ds) > 0 THEN <<Head(ds) - 1>> \o Tail(ds)
                  ELSE <<9>> \o MagPredRaw(Tail(ds))

\* ds - 1, for ds > 0
MagPred(ds) == StripHigh(MagPredRaw(ds))

RECURSIVE AddCarry(_, _, _)
AddCarry(a, b, c) ==
  IF a = <<>> /\ b = <<>>
    THEN IF c = 0 THEN <<>> ELSE <<c>>
    ELSE LET x == IF a = <<>> THEN 0 ELSE Head(a)
             y == IF b = <<>> THEN 0 ELSE Head(b)
             v == x + y + c
         IN  <<v % 10>> \o AddCarry(IF a = <<>> THEN <<>> ELSE Tail(a),
                                    IF b = <<>> THEN <<>> ELSE Tail(b),
                                    v \div 10)

MagAdd(a, b) == AddCarry(a, b, 0)

MagIsOdd(ds) == ds # <<>> /\ Head(ds) % 2 = 1

\* floor(ds / 2): each digit takes the parity of the digit above it as carry
MagHalf(ds) ==
  StripHigh([k \in 1..Len(ds) |->
              (ds[k] + (IF k < Len(ds) /\ ds[k + 1] % 2 = 1 THEN 10 ELSE 0))
                \div 2])

MagLt(a, b) ==
  \/ Len(a) < Len(b)
  \/ /\ Len(a) = Len(b)
     /\ \E k \in 1..Len(a) :
          /\ a[k] < b[k]
          /\ \A j \in (k + 1)..Len(a) : a[j] = b[j]

RECURSIVE MagShiftLeft(_, _)
\* ds * 2^e
MagShiftLeft(ds, e) == IF e = 0 THEN ds ELSE MagShiftLeft(MulAdd(ds, 2, 0), e - 1)

\* 10^e
MagPow10(e) == [k \in 1..(e + 1) |-> IF k = e + 1 THEN 1 ELSE 0]

(***************************************************************************)
(* The Number type: IEEE 754 binary64, restricted to NaN and the integers  *)
(* (no operation of the handler produces a fraction).                      *)
(***************************************************************************)
\* Bits of a binary64 significand.
MantissaBits == 53

\* Number::toString prints magnitudes from 10^ExpDigits on in exponent form.
ExpDigits == 21

TwoToMantissa == MagShiftLeft(<<1>>, MantissaBits)

NaN == [nan |-> TRUE, neg |-> FALSE, mag |-> <<>>]

Num(neg, mag) == [nan |-> FALSE, neg |-> neg, mag |-> mag]

RECURSIVE RoundShift(_, _, _, _)
\* m: the bits kept so far, guard: the last bit dropped, sticky: whether any
\* bit dropped before it was 1, e: the number of bits dropped.
RoundShift(m, guard, sticky, e) ==
  IF MagLt(m, TwoToMantissa)
    THEN MagShiftLeft(IF guard /\ (sticky \/ MagIsOdd(m)) THEN MagSucc(m) ELSE m, e)
    ELSE RoundShift(MagHalf(m), MagIsOdd(m), sticky \/ guard, e + 1)

\* The binary64 value nearest to the natural number ds, ties to even.
RoundToDouble(ds) == RoundShift(ds, FALSE, FALSE, 0)

\* < and <= of the language on Numbers: false when either side is NaN; -0 = +0.
IsNegative(a) == a.neg /\ a.mag # <<>>

NumLt(a, b) ==
  /\ ~a.nan
  /\ ~b.nan
  /\ IF IsNegative(a) # IsNegative(b) THEN IsNegative(a)
     ELSE IF IsNegative(a) THEN MagLt(b.mag, a.mag)
     ELSE MagLt(a.mag, b.mag)

NumLe(a, b) == ~a.nan /\ ~b.nan /\ ~NumLt(b, a)

\* i + 1 in Number arithmetic: the exact sum, rounded to binary64.
NumInc(a) ==
  IF a.nan THEN NaN
  ELSE IF IsNegative(a)
    THEN LET m == RoundToDouble(MagPred(a.mag)) IN Num(m # <<>>, m)
    ELSE Num(FALSE, RoundToDouble(MagSucc(a.mag)))

isNaN(a) == a.nan

(***************************************************************************)
(* Text.                                                                   *)
(***************************************************************************)
DigitChars == <<"0", "1", "2", "3", "4", "5", "6", "7", "8", "9">>

LowerDigits == DigitChars \o <<"a", "b", "c", "d", "e", "f">>

UpperDigits == DigitChars \o <<"A", "B", "C", "D", "E", "F">>

NoDigit == 36

\* The value of character c as a digit, NoDigit when it is none up to radix 16.
DigitValue(c) ==
  IF \E k \in 1..16 : LowerDigits[k] = c
    THEN (CHOOSE k \in 1..16 : LowerDigits[k] = c) - 1
  ELSE IF \E k \in 1..16 : UpperDigits[k] = c
    THEN (CHOOSE k \in 1..16 : UpperDigits[k] = c) - 1
  ELSE NoDigit

\* Text of a sequence of decimal digits given most significant first.
DigitText(ds) == [k \in 1..Len(ds) |-> DigitChars[ds[k] + 1]]

RECURSIVE IntDigits(_)
\* The decimal digits of a small natural number, most significant first.
IntDigits(n) == IF n < 10 THEN <<n>> ELSE IntDigits(n \div 10) \o <<n % 10>>

(***************************************************************************)
(* parseInt(string) with no radix argument.                                *)
(***************************************************************************)
RECURSIVE TrimStart(_)
TrimStart(s) == IF s # <<>> /\ Head(s) = " " THEN TrimStart(Tail(s)) ELSE s

HasSign(s) == s # <<>> /\ Head(s) \in {"-", "+"}

HasHexPrefix(s) == Len(s) >= 2 /\ s[1] = "0" /\ s[2] \in {"x", "X"}

RECURSIVE ParseDigits(_, _, _, _)
\* Reads the longest prefix of s made of digits of the radix, accumulating its
\* value in acc; any tells whether a digit was read.
ParseDigits(s, radix, acc, any) ==
  IF s # <<>> /\ DigitValue(Head(s)) < radix
    THEN ParseDigits(Tail(s), radix, MulAdd(acc, radix, DigitValue(Head(s))), TRUE)
    ELSE [any |-> any, mag |-> acc]

parseInt(string) ==
  LET S      == TrimStart(string)
      neg    == S # <<>> /\ Head(S) = "-"
      body   == IF HasSign(S) THEN Tail(S) ELSE S
      radix  == IF HasHexPrefix(body) THEN 16 ELSE 10
      Z      == IF HasHexPrefix(body) THEN SubSeq(body, 3, Len(body)) ELSE body
      parsed == ParseDigits(Z, radix, <<>>, FALSE)
  IN  IF ~parsed.any THEN NaN ELSE Num(neg, RoundToDouble(parsed.mag))

(***************************************************************************)
(* Number.prototype.toString() in radix 10, for NaN and integers.          *)
(***************************************************************************)
\* ds with all but its k most significant digits set to zero
TruncTo(ds, k) == [j \in 1..Len(ds) |-> IF j <= Len(ds) - k THEN 0 ELSE ds[j]]

RECURSIVE Shortest(_, _)
\* The number of at most k' >= k significant digits, k' least, that rounds to
\* the binary64 value ds; of two such numbers the nearer, then the even one.
Shortest(ds, k) ==
  IF k >= Len(ds) THEN ds
  ELSE LET lo   == TruncTo(ds, k)
           hi   == MagAdd(lo, MagPow10(Len(ds) - k))
           okLo == RoundToDouble(lo) = ds
           okHi == RoundToDouble(hi) = ds
           sum  == MagAdd(lo, hi)
           twice == MagAdd(ds, ds)
       IN  IF okLo /\ okHi
             THEN IF MagLt(twice, sum) THEN lo
                  ELSE IF MagLt(sum, twice) THEN hi
                  ELSE IF lo[Len(ds) - k + 1] % 2 = 0 THEN lo ELSE hi
           ELSE IF okLo THEN lo
           ELSE IF okHi THEN hi
           ELSE Shortest(ds, k + 1)

RECURSIVE DropLowZeros(_)
DropLowZeros(ds) == IF ds # <<>> /\ Head(ds) = 0 THEN DropLowZeros(Tail(ds)) ELSE ds

MagToString(ds) ==
  IF ds = <<>> THEN <<"0">>
  ELSE LET c == Shortest(ds, 1)
           s == DigitText(Reverse(DropLowZeros(c)))
       IN  IF Len(c) <= ExpDigits
             THEN DigitText(Reverse(c))
             ELSE <<Head(s)>>
                  \o (IF Len(s) > 1 THEN <<".">> \o Tail(s) ELSE <<>>)
                  \o <<"e", "+">> \o DigitText(IntDigits(Len(c) - 1))

\* toString that pads a single digit to two, as a fixed-width formatter would
toStringPadded(a) ==
  IF a.nan THEN <<"N", "a", "N">>
  ELSE (IF IsNegative(a) THEN <<"-">> ELSE <<>>)
       \o (IF Len(a.mag) <= 1 THEN <<"0">> ELSE <<>>) \o MagToString(a.mag)

toString(a) ==
  IF a.nan THEN <<"N", "a", "N">>
  ELSE (IF IsNegative(a) THEN <<"-">> ELSE <<>>) \o MagToString(a.mag)

(***************************************************************************)
(* Exact integer helpers used to state the inputs and the properties (the  *)
(* mathematical integers, not Number arithmetic).                          *)
(***************************************************************************)
IntSucc(a) ==
  IF IsNegative(a) THEN Num(MagPred(a.mag) # <<>>, MagPred(a.mag))
                   ELSE Num(FALSE, MagSucc(a.mag))

SameInt(a, b) == ~a.nan /\ ~b.nan /\ a.mag = b.mag /\ IsNegative(a) = IsNegative(b)

RECURSIVE IntPlus(_, _)
IntPlus(a, k) == IF k = 0 THEN a ELSE IntPlus(IntSucc(a), k - 1)

RECURSIVE Within(_, _, _)
\* e <= s + k
Within(s, e, k) ==
  IF NumLe(e, s) THEN TRUE
  ELSE IF k = 0 THEN FALSE
  ELSE Within(IntSucc(s), e, k - 1)

(***************************************************************************)
(* The texts the user may type into the fields.                            *)
(***************************************************************************)
\* 2^53, 2^53 + 2, 2^53 + 3, 2^53 + 4 and 10^21 in decimal
TextTwo53 == DigitText(<<9, 0, 0, 7, 1, 9, 9, 2, 5, 4, 7, 4, 0, 9, 9, 2>>)

TextTwo53Plus2 == DigitText(<<9, 0, 0, 7, 1, 9, 9, 2, 5, 4, 7, 4, 0, 9, 9, 4>>)

TextTwo53Plus3 == DigitText(<<9, 0, 0, 7, 1, 9, 9, 2, 5, 4, 7, 4, 0, 9, 9, 5>>)

TextTwo53Plus4 == DigitText(<<9, 0, 0, 7, 1, 9, 9, 2, 5, 4, 7, 4, 0, 9, 9, 6>>)

TextTenTo21 == DigitText(Reverse(MagPow10(ExpDigits)))

BoundTexts ==
  { <<>>, <<"a">>, <<"1">>, <<"1", "0">>, <<"-", "1">>, <<" ", "5">>,
    <<"1", "2", "a", "b", "c">>, <<"1", ".", "5">>, <<"0", "x", "1", "F">>,
    TextTwo53, TextTwo53Plus2, TextTwo53Plus4, TextTenTo21 }

PasswordTexts ==
  { <<>>, <<"5">>, <<"0", "5">>, <<"0", "0", "7">>, <<"1", "0">>,
    <<"3", "1">>, <<"-", "1">>, <<"0">>,
    TextTwo53, TextTwo53Plus3, TextTwo53Plus4,
    TextTenTo21, <<"1", "e", "+", "2", "1">> }

\* The bounds offered keep a scan that ends within MaxRange + 1 comparisons.
RangeOffered(startText, endText) ==
  LET s == parseInt(startText)
      e == parseInt(endText)
  IN  IF isNaN(s) \/ isNaN(e) THEN TRUE ELSE Within(s, e, MaxRange)

OfferedBounds ==
  UNION { IF RangeOffered(p[1], p[2]) THEN {p} ELSE {} : p \in BoundTexts \X BoundTexts }

(***************************************************************************)
(* State.                                                                  *)
(***************************************************************************)
VARIABLES
  passwordField, startField, endField,  \* the value of the three input elements
  resultText, resultColor,              \* textContent and style.color of #result
  pc,                                   \* where the handler is
  password, start, end, i, found,       \* the handler's locals
  read,                                 \* history: the field values read by the click
  before,                               \* history: the result shown when clicked
  compared,                             \* history: the candidates compared by the click
  writes                                \* history: assignments to result.textContent

fields == <<passwordField, startField, endField>>

result == <<resultText, resultColor>>

locals == <<password, start, end, i, found>>

history == <<read, before, compared, writes>>

vars == <<fields, result, pc, locals, history>>

NothingRead == <<<<>>, <<>>, <<>>>>

\* The popup opens with its three fields empty and nothing in the result.
Init ==
  /\ passwordField = <<>>
  /\ startField = <<>>
  /\ endField = <<>>
  /\ resultText = ""
  /\ resultColor = ""
  /\ pc = "idle"
  /\ password = <<>>
  /\ start = NaN
  /\ end = NaN
  /\ i = NaN
  /\ found = FALSE
  /\ read = NothingRead
  /\ before = <<"", "">>
  /\ compared = <<>>
  /\ writes = 0

(***************************************************************************)
(* The user edits a field while no handler runs.                           *)
(***************************************************************************)
EditPassword ==
  /\ pc = "idle"
  /\ passwordField' \in PasswordTexts
  /\ UNCHANGED <<startField, endField, result, pc, locals, history>>

EditStart ==
  /\ pc = "idle"
  /\ startField' \in BoundTexts
  /\ <<startField', endField>> \in OfferedBounds
  /\ UNCHANGED <<passwordField, endField, result, pc, locals, history>>

EditEnd ==
  /\ pc = "idle"
  /\ endField' \in BoundTexts
  /\ <<startField, endField'>> \in OfferedBounds
  /\ UNCHANGED <<passwordField, startField, result, pc, locals, history>>

(***************************************************************************)
(* The click handler.                                                      *)
(***************************************************************************)
\* lines 1-6: the click reads the three fields and parses the bounds
Click ==
  /\ pc = "idle"
  /\ password' = passwordField
  /\ start' = parseInt(startField)
  /\ end' = parseInt(endField)
  /\ read' = fields
  /\ before' = result
  /\ compared' = <<>>
  /\ writes' = 0
  /\ pc' = "guard"
  /\ UNCHANGED <<fields, result, i, found>>

\* line 8
InvalidRangeBoth(s, e) == isNaN(s) /\ isNaN(e)

InvalidRange(s, e) == isNaN(s) \/ isNaN(e)

\* lines 8-12 without the return of line 11
InvalidNoReturn ==
  /\ pc = "guard"
  /\ InvalidRange(start, end)
  /\ resultText' = "Invalid range"
  /\ resultColor' = "red"
  /\ writes' = writes + 1
  /\ found' = FALSE
  /\ i' = start
  /\ pc' = "loop"
  /\ UNCHANGED <<fields, password, start, end, read, before, compared>>

\* lines 8-12
InvalidReturn ==
  /\ pc = "guard"
  /\ InvalidRange(start, end)
  /\ resultText' = "Invalid range"
  /\ resultColor' = "red"
  /\ writes' = writes + 1
  /\ pc' = "done"
  /\ UNCHANGED <<fields, locals, read, before, compared>>

\* lines 15-16: let found = false; let i = start
LoopInit ==
  /\ pc = "guard"
  /\ ~InvalidRange(start, end)
  /\ found' = FALSE
  /\ i' = start
  /\ pc' = "loop"
  /\ UNCHANGED <<fields, result, password, start, end, history>>

\* line 16 with < or !== in place of <=
LoopCondExclusive(n, last) == NumLt(n, last)

LoopCondNotEqual(n, last) == ~SameInt(n, last)

\* line 16: i <= end
LoopCond(n, last) == NumLe(n, last)

\* line 17: === on two strings
StrictEquals(s, t) == s = t

Record(n) == IF Len(compared) < MaxTrace THEN Append(compared, n) ELSE compared

\* lines 16-21: one test of the loop condition and, when it holds, one turn
LoopStep ==
  /\ pc = "loop"
  /\ IF LoopCond(i, end)
       THEN /\ compared' = Record(i)
            /\ IF StrictEquals(toString(i), password)
                 THEN /\ found' = TRUE
                      /\ pc' = "report"
                      /\ UNCHANGED i
                 ELSE /\ i' = NumInc(i)
                      /\ UNCHANGED <<found, pc>>
       ELSE /\ pc' = "report"
            /\ UNCHANGED <<i, found, compared>>
  /\ UNCHANGED <<fields, result, password, start, end, read, before, writes>>

\* lines 23-29 with the else branch left out
ReportFoundOnly ==
  /\ pc = "report"
  /\ IF found
       THEN /\ resultText' = "Password is within range ?"
            /\ resultColor' = "green"
            /\ writes' = writes + 1
       ELSE UNCHANGED <<result, writes>>
  /\ pc' = "done"
  /\ UNCHANGED <<fields, locals, read, before, compared>>

\* lines 23-29
Report ==
  /\ pc = "report"
  /\ IF found
       THEN /\ resultText' = "Password is within range ?"
            /\ resultColor' = "green"
       ELSE /\ resultText' = "Password NOT in range ?"
            /\ resultColor' = "red"
  /\ writes' = writes + 1
  /\ pc' = "done"
  /\ UNCHANGED <<fields, locals, read, before, compared>>

\* lines 11 and 30: the handler returns and its locals go out of scope
Return ==
  /\ pc = "done"
  /\ pc' = "idle"
  /\ password' = <<>>
  /\ start' = NaN
  /\ end' = NaN
  /\ i' = NaN
  /\ found' = FALSE
  /\ read' = NothingRead
  /\ before' = <<"", "">>
  /\ compared' = <<>>
  /\ writes' = 0
  /\ UNCHANGED <<fields, result>>

Next ==
  \/ EditPassword
  \/ EditStart
  \/ EditEnd
  \/ Click
  \/ InvalidReturn
  \/ LoopInit
  \/ LoopStep
  \/ Report
  \/ Return

Spec == Init /\ [][Next]_vars

(***************************************************************************)
(* Vocabulary of the properties.                                           *)
(***************************************************************************)
ShowsFound == result = <<"Password is within range ?", "green">>

ShowsNotFound == result = <<"Password NOT in range ?", "red">>

ShowsInvalid == result = <<"Invalid range", "red">>

Parsed == ~isNaN(start) /\ ~isNaN(end)

Body(t) == IF t # <<>> /\ Head(t) = "-" THEN Tail(t) ELSE t

AllDecimal(t) == t # <<>> /\ \A k \in 1..Len(t) : DigitValue(t[k]) < 10

\* t is the canonical decimal string of an integer: -?(0|[1-9][0-9]*), not "-0"
IsCanonicalInt(t) ==
  /\ AllDecimal(Body(t))
  /\ Len(Body(t)) > 1 => Body(t)[1] # "0"
  /\ Body(t) = <<"0">> => t = <<"0">>

\* the integer a canonical decimal string denotes
IntOf(t) ==
  Num(t # Body(t), StripHigh(Reverse([k \in 1..Len(Body(t)) |-> DigitValue(Body(t)[k])])))

\* some integer n with s <= n <= e has the canonical decimal string t
InRange(t, s, e) == IsCanonicalInt(t) /\ NumLe(s, IntOf(t)) /\ NumLe(IntOf(t), e)

\* t is a base-10 integer literal: an optional sign and decimal digits only
WellFormedInt(t) == AllDecimal(IF HasSign(t) THEN Tail(t) ELSE t)

\* t has no decimal digit where a number would start
NonNumeric(t) ==
  LET S    == TrimStart(t)
      body == IF HasSign(S) THEN Tail(S) ELSE S
  IN  body = <<>> \/ DigitValue(Head(body)) >= 10

\* seq is s, s + 1, s + 2, ... as integers
Consecutive(seq, s) == \A k \in 1..Len(seq) : SameInt(seq[k], IntPlus(s, k - 1))

Last(seq) == seq[Len(seq)]

C2_NotFoundWhenNotInRange ==
  (pc = "done" /\ Parsed /\ ~InRange(password, start, end)) => ShowsNotFound

\* C3: when the start field or the end field is non-numeric the handler
\* returns with "Invalid range" in red, whatever the password.
C3_InvalidWhenNonNumeric ==
  (pc = "done" /\ (NonNumeric(read[2]) \/ NonNumeric(read[3]))) => ShowsInvalid

C3_Witness ==
  /\ pc = "done"
  /\ read = <<<<"1", "0">>, <<"a">>, <<"1", "0">>>>
  /\ ShowsInvalid

\* C4: when the start field or the end field is not a well-formed base-10
\* integer literal the handler returns with "Invalid range" in red and has
\* compared no candidate.
C4_InvalidWhenNotWellFormed ==
  (pc = "done" /\ (~WellFormedInt(read[2]) \/ ~WellFormedInt(read[3])))
    => (ShowsInvalid /\ compared = <<>>)

\* C5: when the bounds parsed, a password of two or more characters that
\* starts with '0' ends in the 'not found' message in red.
C5_LeadingZeroNeverMatches ==
  (pc = "done" /\ Parsed /\ Len(password) >= 2 /\ password[1] = "0")
    => ShowsNotFound

C5_Witness ==
  /\ pc = "done"
  /\ read = <<<<"0", "5">>, <<"1">>, <<"1", "0">>>>
  /\ NumLe(start, parseInt(password))
  /\ NumLe(parseInt(password), end)
  /\ ShowsNotFound

\* C6: with a bound that failed to parse the handler never reaches the loop,
\* and it returns having compared nothing and written the result once.
C6_InvalidSkipsScan ==
  (pc # "idle" /\ ~Parsed)
    => /\ pc \in {"guard", "done"}
       /\ pc = "done" => (compared = <<>> /\ writes = 1 /\ ShowsInvalid)

C6_Witness ==
  /\ pc = "done"
  /\ isNaN(start)
  /\ ~isNaN(end)
  /\ compared = <<>>
  /\ writes = 1

\* C7: a scan that ends with a match has compared exactly the integers
\* start, start + 1, ..., i where i is the match; a scan that ends without
\* one has compared every integer of [start, end] once, in ascending order.
C7_AscendingScanToFirstMatch ==
  (pc = "done" /\ Parsed)
    => /\ Consecutive(compared, start)
       /\ ShowsFound
            => (compared # <<>> /\ toString(Last(compared)) = password)
       /\ ShowsNotFound
            => IF NumLt(end, start) THEN compared = <<>>
                                    ELSE compared # <<>> /\ SameInt(Last(compared), end)

\* no candidate is compared twice by one click
NoStateRecurs ==
  \A j, k \in 1..Len(compared) : j < k => ~SameInt(compared[j], compared[k])

\* C8: every click completes; the result then is one of the three outcomes,
\* and it is not written while the scan runs.  The handler is deterministic
\* and in the loop only i changes, so a click that compares the same
\* candidate twice has come back to a state it was in and never completes:
\* completion is stated as no candidate being compared twice.
C8_EveryClickCompletes ==
  /\ NoStateRecurs
  /\ pc = "loop" => result = before
  /\ pc = "done" => (ShowsFound \/ ShowsNotFound \/ ShowsInvalid)

\* C9: with both bounds parsed and start > end the loop body is never
\* entered and the handler returns with the 'not found' message in red.
C9_EmptyRangeIsNotFound ==
  (pc \in {"loop", "report", "done"} /\ Parsed /\ NumLt(end, start))
    => /\ compared = <<>>
       /\ pc = "done" => ShowsNotFound

C9_Witness ==
  /\ pc = "done"
  /\ read = <<<<"1", "0">>, <<"1", "0">>, <<"1">>>>
  /\ toString(start) = password
  /\ NumLt(end, start)
  /\ ShowsNotFound

RECURSIVE ScanFinds(_, _, _, _)
\* whether the scan from n to last meets the text pw within fuel comparisons
ScanFinds(n, last, pw, fuel) ==
  IF fuel = 0 \/ ~NumLe(n, last) THEN FALSE
  ELSE IF toString(n) = pw THEN TRUE
  ELSE ScanFinds(NumInc(n), last, pw, fuel - 1)

\* the result as a function of the three field values alone
Verdict(pwText, startText, endText) ==
  IF isNaN(parseInt(startText)) \/ isNaN(parseInt(endText))
    THEN <<"Invalid range", "red">>
  ELSE IF ScanFinds(parseInt(startText), parseInt(endText), pwText, MaxTrace)
    THEN <<"Password is within range ?", "green">>
  ELSE <<"Password NOT in range ?", "red">>

\* C10: the handler leaves the three fields as it read them, and the result
\* it returns with is a function of the field values read by this click,
\* whatever was clicked and shown before.
C10_ResultFromLastClickOnly ==
  /\ pc # "idle" => fields = read
  /\ pc = "done" => result = Verdict(read[1], read[2], read[3])

C10_Witness ==
  /\ pc = "done"
  /\ before = <<"Password is within range ?", "green">>
  /\ ShowsNotFound

====
